---- MODULE Spec2Model ----
(***************************************************************************)
(* Model of DashCryptoCharts.py: the CryptoChart session object (symbol,   *)
(* request parameters, data frame), its loader fillDataFrame, the          *)
(* indicator computation movingAverages and the Dash callback              *)
(* displayCandleStick.                                                     *)
(*                                                                         *)
(* Strings are sequences of one-character strings, so that upper() and     *)
(* concatenation are computed and not assumed.  Floating-point values are  *)
(* modelled as exact reals of the form num/den + k*sqrt(radn/radd), which  *)
(* is closed under every operation movingAverages performs; NaN is a value *)
(* of its own.  JSON cells keep their JSON type (number, numeric string,   *)
(* other string, null) because the code's behaviour depends on it.         *)
(*                                                                         *)
(* Library behaviour is that of the pandas 1.x and requests the code was   *)
(* written for: rolling(window=n) has min_periods = n, std() has ddof = 1  *)
(* and accepts and ignores skipna, requests raises ConnectionError (no     *)
(* ValueError) on transport errors, json.loads raises JSONDecodeError (a   *)
(* ValueError) on a body that is no JSON.                                  *)
(***************************************************************************)
EXTENDS Integers, Sequences, FiniteSets, TLC

VARIABLES
    pc,         \* position of the process / of the engine
    symbol,     \* Chart.symbol
    req_params, \* Chart.req_params['symbol'] ("" before the first request)
    df,         \* Chart.df, or NoDF while the attribute does not exist
    dfSymbol,   \* the symbol whose response Chart.df was built from
    last,       \* record of the last handler run (its inputs and outcome)
    tpc,        \* per-thread position (concurrent host)
    tloc        \* per-thread locals of the callback (concurrent host)

vars == <<pc, symbol, req_params, df, dfSymbol, last, tpc, tloc>>

----------------------------------------------------------------------------
(* Bounds of the model *)

MaxRecords == 1      \* records in a response of the session specifications
MaxFields == 7       \* fields per record in a response
MaxRows == 201       \* rows of a table given to the indicator engine
MaxGap == 1          \* last row of such a table whose close may be null

----------------------------------------------------------------------------
(* Strings *)

EmptyStr == <<>>
USDT == <<"U", "S", "D", "T">>
BTCUSDT == <<"B", "T", "C", "U", "S", "D", "T">>

LowerCase == <<"b", "c", "e", "h", "t", "u", "s", "d">>
UpperCase == <<"B", "C", "E", "H", "T", "U", "S", "D">>

\* str.upper() on one character
UpperChar(c) ==
    IF \E i \in 1..Len(LowerCase) : LowerCase[i] = c
    THEN UpperCase[CHOOSE i \in 1..Len(LowerCase) : LowerCase[i] = c]
    ELSE c

\* str.upper()
Upper(s) == [i \in 1..Len(s) |-> UpperChar(s[i])]

----------------------------------------------------------------------------
(* Numbers: exact reals num/den + k*sqrt(radn/radd), and NaN *)

NaN == [t |-> "nan"]
IsNaN(x) == x.t = "nan"

Rat(n, d) == [t |-> "float", num |-> n, den |-> d, k |-> 0, radn |-> 0, radd |-> 1]
Surd(n, d) == [t |-> "float", num |-> 0, den |-> 1, k |-> 1, radn |-> n, radd |-> d]

SignInt(n) == IF n > 0 THEN 1 ELSE IF n < 0 THEN 0 - 1 ELSE 0

FAdd(x, y) ==
    IF IsNaN(x) \/ IsNaN(y) THEN NaN
    ELSE LET r == IF x.k # 0 THEN x ELSE y
             \* the common denominator: the larger one when it is a multiple
             \* of the other, the product otherwise
             d == IF y.den % x.den = 0 THEN y.den
                  ELSE IF x.den % y.den = 0 THEN x.den
                  ELSE x.den * y.den
         IN  [t |-> "float",
              num |-> x.num * (d \div x.den) + y.num * (d \div y.den),
              den |-> d,
              k |-> x.k + y.k,
              radn |-> r.radn,
              radd |-> r.radd]

FScale(c, x) ==
    IF IsNaN(x) THEN NaN ELSE [x EXCEPT !.num = c * x.num, !.k = c * x.k]

FSub(x, y) == FAdd(x, FScale(0 - 1, y))

FDivInt(x, n) ==
    IF IsNaN(x) THEN NaN
    ELSE IF n = 0 THEN NaN
    ELSE [x EXCEPT !.den = x.den * n]

FSquare(x) == IF IsNaN(x) THEN NaN ELSE Rat(x.num * x.num, x.den * x.den)

\* square root of a rational that is not negative
FSqrt(x) == IF IsNaN(x) THEN NaN ELSE Surd(x.num, x.den)

\* sign of a value that is not NaN
FSign(x) ==
    LET rs == SignInt(x.num)
        ss == IF x.radn = 0 THEN 0 ELSE SignInt(x.k)
    IN  IF ss = 0 THEN rs
        ELSE IF rs = 0 \/ rs = ss THEN ss
        ELSE LET l == x.num * x.num * x.radd
                 r == x.k * x.k * x.radn * x.den * x.den
             IN  IF l > r THEN rs ELSE IF l < r THEN ss ELSE 0

\* comparisons of floats: every comparison with NaN is false
FEq(x, y) == ~IsNaN(x) /\ ~IsNaN(y) /\ FSign(FSub(x, y)) = 0
FGeq(x, y) == ~IsNaN(x) /\ ~IsNaN(y) /\ FSign(FSub(x, y)) >= 0

----------------------------------------------------------------------------
(* JSON cells and data frames *)

Cell(t, v) == [t |-> t, v |-> v]
Null == Cell("null", 0)

\* can float() convert the cell (astype('float') raises ValueError if not)
Convertible(c) == c.t # "bad"

\* Series.astype('float') on one cell: numbers and numeric strings give their
\* value, None gives NaN, a float stays what it is
AsFloat(c) ==
    IF c.t \in {"float", "nan"} THEN c
    ELSE IF c.t = "null" THEN NaN
    ELSE Rat(c.v, 1)

NoDF == [absent |-> TRUE]
HasDF(d) == d # NoDF

DefaultLabels == <<"0", "1", "2", "3", "4", "5", "6", "7", "8", "9", "10", "11", "12">>
OHLCV == <<"Date", "Open", "High", "Low", "Close", "Volume">>

Max(S) == CHOOSE m \in S : \A n \in S : n <= m
Min(a, b) == IF a < b THEN a ELSE b

\* pd.DataFrame(list of lists): one column per position, short records
\* padded with None, default integer labels and a default RangeIndex
DataFrame(records) ==
    LET n == Len(records)
        w == IF n = 0 THEN 0 ELSE Max({Len(records[i]) : i \in 1..n})
    IN  [columns |-> [c \in 1..w |-> DefaultLabels[c]],
         index |-> [i \in 1..n |-> i - 1],
         data |-> [c \in 1..w |->
                     [i \in 1..n |-> IF c <= Len(records[i])
                                     THEN records[i][c] ELSE Null]]]

\* df.iloc[:, a:b]
Iloc(d, a, b) ==
    LET w == Min(b, Len(d.columns)) - a
    IN  [columns |-> [c \in 1..w |-> d.columns[a + c]],
         index |-> d.index,
         data |-> [c \in 1..w |-> d.data[a + c]]]

HasColumn(d, name) == \E c \in 1..Len(d.columns) : d.columns[c] = name

\* df[name]
Column(d, name) == d.data[CHOOSE c \in 1..Len(d.columns) : d.columns[c] = name]

\* df[name] = series
SetColumn(d, name, series) ==
    IF HasColumn(d, name)
    THEN LET c == CHOOSE c \in 1..Len(d.columns) : d.columns[c] = name
         IN  [d EXCEPT !.data[c] = series]
    ELSE [d EXCEPT !.columns = Append(d.columns, name),
                   !.data = Append(d.data, series)]

NumRows(d) == Len(d.index)

----------------------------------------------------------------------------
(* Rolling windows (pandas Series.rolling(window=w), min_periods = w) *)

W21 == 21
W50 == 50
W100 == 100
W200 == 200
BollWindow == 20
BollWidth == 2
TPParts == 3

Zero == Rat(0, 1)

RECURSIVE RunningSums(_, _, _)
\* the running sums of xs[lo..hi], NaN observations skipped (split in halves
\* to keep the evaluation shallow)
RunningSums(xs, lo, hi) ==
    IF lo = hi THEN << IF IsNaN(xs[lo]) THEN Zero ELSE xs[lo] >>
    ELSE LET mid == (lo + hi) \div 2
             l == RunningSums(xs, lo, mid)
             r == RunningSums(xs, mid + 1, hi)
             tot == l[Len(l)]
         IN  l \o [j \in 1..Len(r) |-> FAdd(tot, r[j])]

RECURSIVE RunningCounts(_, _, _)
\* the running numbers of observations of xs[lo..hi] that are not NaN
RunningCounts(xs, lo, hi) ==
    IF lo = hi THEN << IF IsNaN(xs[lo]) THEN 0 ELSE 1 >>
    ELSE LET mid == (lo + hi) \div 2
             l == RunningCounts(xs, lo, mid)
             r == RunningCounts(xs, mid + 1, hi)
             tot == l[Len(l)]
         IN  l \o [j \in 1..Len(r) |-> tot + r[j]]

\* (mutant) the row that leaves the window is removed one row too late
SlidingMeanLate(xs, w, minp) ==
    IF Len(xs) = 0 THEN <<>>
    ELSE LET sums == RunningSums(xs, 1, Len(xs))
             counts == RunningCounts(xs, 1, Len(xs))
         IN  [i \in 1..Len(xs) |->
                LET sum == IF i > w + 1 THEN FSub(sums[i], sums[i - w - 1]) ELSE sums[i]
                    nobs == IF i > w + 1 THEN counts[i] - counts[i - w - 1] ELSE counts[i]
                IN  IF nobs >= minp /\ nobs > 0 THEN FDivInt(sum, nobs) ELSE NaN]

\* the sliding window of pandas: every entering row is added to the sum and
\* the count, the row that leaves the window is removed from both, so at
\* row i they hold the running values at i less those at i - w; a value is
\* produced only when minp observations are in the window
SlidingMean(xs, w, minp) ==
    IF Len(xs) = 0 THEN <<>>
    ELSE LET sums == RunningSums(xs, 1, Len(xs))
             counts == RunningCounts(xs, 1, Len(xs))
         IN  [i \in 1..Len(xs) |->
                LET sum == IF i > w THEN FSub(sums[i], sums[i - w]) ELSE sums[i]
                    nobs == IF i > w THEN counts[i] - counts[i - w] ELSE counts[i]
                IN  IF nobs >= minp /\ nobs > 0 THEN FDivInt(sum, nobs) ELSE NaN]

\* (mutant) rolling(window=w, min_periods=1).mean(): partial windows count
RollingMeanPartial(xs, w) == SlidingMean(xs, w, 1)

\* series.rolling(window=w).mean()
RollingMean(xs, w) == SlidingMean(xs, w, w)

RECURSIVE FSum(_, _, _)
\* sum of xs[lo..hi], NaN entries skipped
FSum(xs, lo, hi) ==
    IF lo > hi THEN Zero
    ELSE IF lo = hi THEN (IF IsNaN(xs[lo]) THEN Zero ELSE xs[lo])
    ELSE LET mid == (lo + hi) \div 2
         IN  FAdd(FSum(xs, lo, mid), FSum(xs, mid + 1, hi))

Count(xs, lo, hi) == Cardinality({j \in lo..hi : ~IsNaN(xs[j])})

\* sample standard deviation (ddof = 1) of the observations in xs[lo..hi]
WindowStd(xs, lo, hi, minp) ==
    LET nobs == Count(xs, lo, hi)
    IN  IF nobs < minp \/ nobs <= 1 THEN NaN
        ELSE LET mean == FDivInt(FSum(xs, lo, hi), nobs)
                 sq == [j \in 1..Len(xs) |->
                          IF j < lo \/ j > hi THEN NaN
                          ELSE FSquare(FSub(xs[j], mean))]
             IN  FSqrt(FDivInt(FSum(sq, lo, hi), nobs - 1))

\* series.rolling(window=w).std()
RollingStd(xs, w) ==
    [i \in 1..Len(xs) |-> WindowStd(xs, IF i > w THEN i - w + 1 ELSE 1, i, w)]

----------------------------------------------------------------------------
(* CryptoChart.movingAverages *)

AsFloatSeries(col) == [i \in 1..Len(col) |-> AsFloat(col[i])]
CanFloat(col) == \A i \in 1..Len(col) : Convertible(col[i])

Done(d) == [df |-> d, raised |-> FALSE]
ValueError(d) == [df |-> d, raised |-> TRUE]

\* self.df[name] = self.df['Close'].astype('float').rolling(window=w).mean()
MovingAverage(d, name, w) ==
    IF ~CanFloat(Column(d, "Close")) THEN ValueError(d)
    ELSE Done(SetColumn(d, name, RollingMean(AsFloatSeries(Column(d, "Close")), w)))

Line67(d) == MovingAverage(d, "21MA", W21)
Line68(d) == MovingAverage(d, "50MA", W50)
Line69(d) == MovingAverage(d, "100MA", W100)
Line70(d) == MovingAverage(d, "200MA", W200)

\* self.df['TP'] = (Close + High + Low) / 3.0
Line81(d) ==
    IF ~(CanFloat(Column(d, "Close")) /\ CanFloat(Column(d, "High"))
         /\ CanFloat(Column(d, "Low")))
    THEN ValueError(d)
    ELSE LET c == AsFloatSeries(Column(d, "Close"))
             h == AsFloatSeries(Column(d, "High"))
             l == AsFloatSeries(Column(d, "Low"))
         IN  Done(SetColumn(d, "TP",
                 [i \in 1..NumRows(d) |->
                     FDivInt(FAdd(FAdd(c[i], h[i]), l[i]), TPParts)]))

\* self.df['STD'] = self.df['TP'].astype('float').rolling(window=20).std(skipna=True)
Line82(d) ==
    Done(SetColumn(d, "STD", RollingStd(AsFloatSeries(Column(d, "TP")), BollWindow)))

\* self.df['BOLU'] = rolling mean of TP + 2 * STD
Line83(d) ==
    LET m == RollingMean(AsFloatSeries(Column(d, "TP")), BollWindow)
        s == Column(d, "STD")
    IN  Done(SetColumn(d, "BOLU",
            [i \in 1..NumRows(d) |-> FAdd(m[i], FScale(BollWidth, s[i]))]))

\* (mutant) the lower band added instead of subtracted
Line84Added(d) ==
    LET m == RollingMean(AsFloatSeries(Column(d, "TP")), BollWindow)
        s == Column(d, "STD")
    IN  Done(SetColumn(d, "BOLD",
            [i \in 1..NumRows(d) |-> FAdd(m[i], FScale(BollWidth, s[i]))]))

\* self.df['BOLD'] = rolling mean of TP - 2 * STD
Line84(d) ==
    LET m == RollingMean(AsFloatSeries(Column(d, "TP")), BollWindow)
        s == Column(d, "STD")
    IN  Done(SetColumn(d, "BOLD",
            [i \in 1..NumRows(d) |-> FSub(m[i], FScale(BollWidth, s[i]))]))

\* the statements of movingAverages in order; the first ValueError ends the
\* run and leaves the columns attached so far (RunStatements runs statement k
\* and the ones after it)
Statement(k, d) ==
    CASE k = 1 -> Line67(d)
      [] k = 2 -> Line68(d)
      [] k = 3 -> Line69(d)
      [] k = 4 -> Line70(d)
      [] k = 5 -> Line81(d)
      [] k = 6 -> Line82(d)
      [] k = 7 -> Line83(d)
      [] k = 8 -> Line84(d)

RECURSIVE RunStatements(_, _)
RunStatements(st, k) ==
    IF st.raised \/ k > 8 THEN st ELSE RunStatements(Statement(k, st.df), k + 1)

MovingAverages(d) == RunStatements(Done(d), 1)

----------------------------------------------------------------------------
(* CryptoChart.fillDataFrame *)

MsPerSec == 1000
SecPerDay == 86400
KeptFields == 6

\* dt.date.fromtimestamp(x / 1000), as days since the epoch
FromTimestamp(x) == (x.v \div MsPerSec) \div SecPerDay

\* the exception the list comprehension of line 58 ends with, "none" if it
\* completes: a string (or None in an object column) cannot be divided
\* (TypeError); None in a numeric column is NaN, which fromtimestamp rejects
\* with a ValueError
DateError(col) ==
    LET odd == {i \in 1..Len(col) : col[i].t # "num"}
    IN  IF odd = {} THEN "none"
        ELSE IF \A i \in odd : col[i].t = "null" THEN "ValueError"
        ELSE "TypeError"

Response(kind, records) == [kind |-> kind, records |-> records]

Self(sym, rp, d, ds) == [symbol |-> sym, req_params |-> rp, df |-> d, dfSymbol |-> ds]

\* the outcomes of a call: it returns (after the except clause ran or not),
\* or an exception leaves it
Returned(self, caught) == [self |-> self, exc |-> "none", caught |-> caught]
Propagated(self, e) == [self |-> self, exc |-> e, caught |-> FALSE]

\* except ValueError: self.symbol = oldSymbol
ExceptValueError(self, oldSymbol) == Returned([self EXCEPT !.symbol = oldSymbol], TRUE)

\* lines 55-59, entered with self.df assigned by line 53
FillFromFrame(self, oldSymbol) ==
    LET s55 == [self EXCEPT !.df = Iloc(self.df, 0, KeptFields)]
    IN  IF Len(s55.df.columns) # Len(OHLCV)
        THEN ExceptValueError(s55, oldSymbol)     \* line 57: length mismatch
        ELSE
        LET s57 == [s55 EXCEPT !.df.columns = OHLCV]
            dates == Column(s57.df, "Date")
        IN  IF DateError(dates) = "TypeError" THEN Propagated(s57, "TypeError")
            ELSE IF DateError(dates) = "ValueError" THEN ExceptValueError(s57, oldSymbol)
            ELSE
            LET s58 == [s57 EXCEPT !.df.index =
                           [i \in 1..Len(dates) |-> FromTimestamp(dates[i])]]
                ma == MovingAverages(s58.df)
                s59 == [s58 EXCEPT !.df = ma.df]
            IN  IF ma.raised THEN ExceptValueError(s59, oldSymbol)
                ELSE Returned(s59, FALSE)

\* fillDataFrame(symbol), the request of line 53 answered by resp
FillDataFrame(self, sym, resp) ==
    LET oldSymbol == self.symbol
        s45 == [self EXCEPT !.symbol = sym, !.req_params = sym]
    IN  IF resp.kind = "ConnectionError" THEN Propagated(s45, "ConnectionError")
        ELSE IF resp.kind = "text" THEN ExceptValueError(s45, oldSymbol)
        ELSE IF resp.kind = "object" THEN ExceptValueError(s45, oldSymbol)
        ELSE FillFromFrame([s45 EXCEPT !.df = DataFrame(resp.records),
                                       !.dfSymbol = sym], oldSymbol)

----------------------------------------------------------------------------
(* Inputs of the session: responses of the quote source, callback arguments *)

MsPerDay == MsPerSec * SecPerDay

\* what may be wrong with the last record of a response
Flaws == {"date_str", "close_bad", "high_bad", "close_null"}

\* the i-th kline of a response: open time (a JSON number), open, high, low,
\* close and volume (numeric strings), close time, ...; cut to f fields
Kline(i, f, flaw) ==
    LET full == << IF flaw = "date_str" THEN Cell("str", i * MsPerDay)
                   ELSE Cell("num", i * MsPerDay + MsPerSec),
                   Cell("str", 10 + i),
                   IF flaw = "high_bad" THEN Cell("bad", 0) ELSE Cell("str", 13 + i),
                   Cell("str", 9 + i),
                   IF flaw = "close_bad" THEN Cell("bad", 0)
                   ELSE IF flaw = "close_null" THEN Null
                   ELSE Cell("str", 11 + i),
                   Cell("str", 500 + i) >>
    IN  [c \in 1..f |-> IF c <= Len(full) THEN full[c] ELSE Cell("num", c)]

Records(n, f, flaw) == [i \in 1..n |-> Kline(i, f, IF i = n THEN flaw ELSE "none")]

NoRecords == <<>>

\* arrays of well-formed klines of every width, and arrays of full-width
\* klines whose last record has a flaw
ArrayResponses ==
    {Response("array", Records(n, f, "none")) :
        n \in 0..MaxRecords, f \in (KeptFields - 1)..MaxFields}
    \cup {Response("array", Records(n, KeptFields, flaw)) :
        n \in 1..MaxRecords, flaw \in Flaws}

Responses ==
    {Response("ConnectionError", NoRecords), Response("text", NoRecords),
     Response("object", NoRecords)} \cup ArrayResponses

NoResponse == Response("none", NoRecords)

\* the value of the crypto-token input: None until the user submits a ticker
NoneValue == [isNone |-> TRUE, s |-> EmptyStr]
Ticker(s) == [isNone |-> FALSE, s |-> s]
Values == {NoneValue, Ticker(<<"E", "T", "H">>), Ticker(<<"e", "t", "h">>),
           Ticker(<<"b", "t", "c">>)}

\* the values of the indicator-list dropdown
Indicators == <<"21MA", "50MA", "100MA", "200MA", "Bollinger Bands">>
Lists == {<<>>, <<"200MA", "Bollinger Bands">>}

----------------------------------------------------------------------------
(* The session: construction at import, then one callback at a time *)

Current == Self(symbol, req_params, df, dfSymbol)

Install(self) ==
    /\ symbol' = self.symbol
    /\ req_params' = self.req_params
    /\ df' = self.df
    /\ dfSymbol' = self.dfSymbol

Ran(op, value, list, fetched, resp, r, exc) ==
    [op |-> op, value |-> value, list |-> list, fetched |-> fetched, resp |-> resp,
     fillExc |-> r.exc, caught |-> r.caught, exc |-> exc]

NoRun ==
    [op |-> "none", value |-> NoneValue, list |-> <<>>, fetched |-> <<>>,
     resp |-> NoResponse, fillExc |-> "none", caught |-> FALSE, exc |-> "none"]

Init ==
    /\ pc = "start"
    /\ symbol = EmptyStr
    /\ req_params = EmptyStr
    /\ df = NoDF
    /\ dfSymbol = EmptyStr
    /\ last = NoRun
    /\ tpc = <<>>
    /\ tloc = <<>>

\* Chart = CryptoChart(): __init__ calls fillDataFrame('BTCUSDT'); an exception
\* that leaves it ends the import of the module
Construct ==
    /\ pc = "start"
    /\ \E resp \in Responses :
        \E r \in {FillDataFrame(Current, BTCUSDT, resp)} :
          /\ Install(r.self)
          /\ pc' = IF r.exc = "none" THEN "serving" ELSE "crashed"
          /\ last' = Ran("construct", NoneValue, <<>>, <<BTCUSDT>>, resp, r, r.exc)
    /\ UNCHANGED <<tpc, tloc>>

\* the columns the figure of the callback reads
FigureColumns(list) ==
    {"Date", "Open", "Close", "High", "Low"}
    \cup {"BOLU" : i \in {j \in 1..Len(list) : list[j] = "Bollinger Bands"}}
    \cup {"BOLD" : i \in {j \in 1..Len(list) : list[j] = "Bollinger Bands"}}
    \cup {list[i] : i \in {j \in 1..Len(list) : list[j] # "Bollinger Bands"}}

\* building the figure from Chart.df
FigureError(d, list) ==
    IF ~HasDF(d) THEN "AttributeError"
    ELSE IF \E c \in FigureColumns(list) : ~HasColumn(d, c) THEN "KeyError"
    ELSE "none"

\* (mutant) the ticker is passed on as typed
PairAsTyped(value) == value.s \o USDT

\* the symbol the callback passes to fillDataFrame: value.upper() + 'USDT'
Pair(value) == Upper(value.s) \o USDT

\* displayCandleStick(value, list)
DisplayCandleStick ==
    /\ pc = "serving"
    /\ \E value \in Values, list \in Lists :
        \E resp \in IF value.isNone THEN {NoResponse} ELSE Responses :
        \E r \in {IF value.isNone THEN Returned(Current, FALSE)
                  ELSE FillDataFrame(Current, Pair(value), resp)} :
          LET fetched == IF value.isNone THEN <<>> ELSE <<Pair(value)>>
              exc == IF r.exc # "none" THEN r.exc ELSE FigureError(r.self.df, list)
          IN  /\ Install(r.self)
              /\ last' = Ran("display", value, list, fetched, resp, r, exc)
    /\ UNCHANGED <<pc, tpc, tloc>>

Next == Construct \/ DisplayCandleStick

Spec == Init /\ [][Next]_vars

----------------------------------------------------------------------------
(* The callback under a threaded host: app.run_server serves each request   *)
(* on a thread of its own and fillDataFrame takes no lock, so the           *)
(* statements of two calls interleave.                                      *)

NumThreads == 2
Threads == 1..NumThreads

\* the session holds a table, fetched for the active symbol
Consistent == HasDF(df) /\ symbol = dfSymbol

\* well-formed klines, and a body that is no JSON
ConcResponses ==
    {Response("array", Records(MaxRecords, KeptFields, "none")), Response("text", NoRecords)}

ConcValues == {Ticker(<<"e", "t", "h">>), Ticker(<<"b", "t", "c">>)}

NoLocals == [symbol |-> EmptyStr, oldSymbol |-> EmptyStr]

\* the session after a construction that succeeded
ConcInit ==
    /\ pc = "serving"
    /\ \E r \in {FillDataFrame(Self(EmptyStr, EmptyStr, NoDF, EmptyStr), BTCUSDT,
                                 Response("array", Records(MaxRecords, KeptFields, "none")))} :
          /\ symbol = r.self.symbol
          /\ req_params = r.self.req_params
          /\ df = r.self.df
          /\ dfSymbol = r.self.dfSymbol
    /\ last = NoRun
    /\ tpc = [t \in Threads |-> "idle"]
    /\ tloc = [t \in Threads |-> NoLocals]

Goto(t, label) == tpc' = [tpc EXCEPT ![t] = label]

\* line 152: the callback calls Chart.fillDataFrame(value.upper() + 'USDT')
Dispatch(t) ==
    /\ tpc[t] = "idle"
    /\ \E value \in ConcValues :
          tloc' = [tloc EXCEPT ![t] = [symbol |-> Pair(value), oldSymbol |-> EmptyStr]]
    /\ Goto(t, "l41")
    /\ UNCHANGED <<pc, symbol, req_params, df, dfSymbol, last>>

\* line 41: oldSymbol = self.symbol
L41(t) ==
    /\ tpc[t] = "l41"
    /\ tloc' = [tloc EXCEPT ![t].oldSymbol = symbol]
    /\ Goto(t, "l43")
    /\ UNCHANGED <<pc, symbol, req_params, df, dfSymbol, last>>

\* lines 43-50: self.symbol = symbol; self.req_params = {...}
L43(t) ==
    /\ tpc[t] = "l43"
    /\ symbol' = tloc[t].symbol
    /\ req_params' = tloc[t].symbol
    /\ Goto(t, "l53")
    /\ UNCHANGED <<pc, df, dfSymbol, last, tloc>>

\* line 53: the request, and self.df = pd.DataFrame(json.loads(...))
L53(t) ==
    /\ tpc[t] = "l53"
    /\ \E resp \in ConcResponses :
          IF resp.kind = "array"
          THEN /\ df' = DataFrame(resp.records)
               /\ dfSymbol' = req_params
               /\ Goto(t, "l55")
          ELSE /\ UNCHANGED <<df, dfSymbol>>
               /\ Goto(t, "l62")
    /\ UNCHANGED <<pc, symbol, req_params, last, tloc>>

\* line 55: self.df = self.df.iloc[:, 0:6]
L55(t) ==
    /\ tpc[t] = "l55"
    /\ df' = Iloc(df, 0, KeptFields)
    /\ Goto(t, "l57")
    /\ UNCHANGED <<pc, symbol, req_params, dfSymbol, last, tloc>>

\* line 57: self.df.columns = [...], a ValueError unless there are six columns
L57(t) ==
    /\ tpc[t] = "l57"
    /\ IF Len(df.columns) # Len(OHLCV)
       THEN UNCHANGED df /\ Goto(t, "l62")
       ELSE df' = [df EXCEPT !.columns = OHLCV] /\ Goto(t, "l58")
    /\ UNCHANGED <<pc, symbol, req_params, dfSymbol, last, tloc>>

\* line 58: self.df.index = [...]; self.df.Date is an AttributeError on a
\* frame another thread has just replaced (its columns are not named yet)
L58(t) ==
    /\ tpc[t] = "l58"
    /\ IF ~HasColumn(df, "Date") \/ DateError(Column(df, "Date")) = "TypeError"
       THEN UNCHANGED df /\ Goto(t, "idle")
       ELSE IF DateError(Column(df, "Date")) = "ValueError"
       THEN UNCHANGED df /\ Goto(t, "l62")
       ELSE /\ df' = [df EXCEPT !.index = [i \in 1..Len(Column(df, "Date")) |->
                                             FromTimestamp(Column(df, "Date")[i])]]
            /\ Goto(t, "l59")
    /\ UNCHANGED <<pc, symbol, req_params, dfSymbol, last, tloc>>

\* line 59: self.movingAverages(); self.df['Close'] is a KeyError on a frame
\* another thread has just replaced
L59(t) ==
    /\ tpc[t] = "l59"
    /\ IF ~(HasColumn(df, "Close") /\ HasColumn(df, "High") /\ HasColumn(df, "Low"))
       THEN UNCHANGED df /\ Goto(t, "idle")
       ELSE \E r \in {MovingAverages(df)} :
              /\ df' = r.df
              /\ Goto(t, IF r.raised THEN "l62" ELSE "l153")
    /\ UNCHANGED <<pc, symbol, req_params, dfSymbol, last, tloc>>

\* line 62: except ValueError: self.symbol = oldSymbol
L62(t) ==
    /\ tpc[t] = "l62"
    /\ symbol' = tloc[t].oldSymbol
    /\ Goto(t, "l153")
    /\ UNCHANGED <<pc, req_params, df, dfSymbol, last, tloc>>

\* lines 153-198: the figure is built and returned
L153(t) ==
    /\ tpc[t] = "l153"
    /\ Goto(t, "idle")
    /\ UNCHANGED <<pc, symbol, req_params, df, dfSymbol, last, tloc>>

ConcNext ==
    \E t \in Threads :
        \/ Dispatch(t)
        \/ L41(t)
        \/ L43(t)
        \/ L53(t)
        \/ L55(t)
        \/ L57(t)
        \/ L58(t)
        \/ L59(t)
        \/ L62(t)
        \/ L153(t)

ConcSpec == ConcInit /\ [][ConcNext]_vars

InFlight == {t \in Threads : tpc[t] # "idle"}

\* C10: calls of fillDataFrame on the one session are serialized: at most one
\* is in flight at a time, and whenever none is in flight the active symbol
\* and the active table come from the same call.
C10_Serialized ==
    /\ Cardinality(InFlight) <= 1
    /\ InFlight = {} => Consistent

----------------------------------------------------------------------------
(* Properties of the session (under Spec) *)

IndicatorColumns == {"21MA", "50MA", "100MA", "200MA", "BOLU", "BOLD"}

\* a fetch that ends in a FetchFailure: a transport error, a body that is no
\* JSON, a JSON body that is no list of records, or records with fewer than
\* the six expected fields
ShortRecords(resp) ==
    /\ resp.kind = "array"
    /\ Len(resp.records) > 0
    /\ \A i \in 1..Len(resp.records) : Len(resp.records[i]) < KeptFields

FetchFailure(resp) ==
    resp.kind \in {"ConnectionError", "text", "object"} \/ ShortRecords(resp)

\* the last handler run was a callback that called fillDataFrame
Loaded(l) == l.op = "display" /\ ~l.value.isNone

\* fillDataFrame ran to its end without an exception, caught or not
Succeeded(l) == l.fillExc = "none" /\ ~l.caught

\* C1: failure preservation.  With table T active for symbol S, a
\* fillDataFrame call of the callback whose fetch ends in a FetchFailure
\* leaves the active symbol S and the active table T.
C1_FailurePreservation ==
    [][(Consistent /\ Loaded(last') /\ FetchFailure(last'.resp)) =>
          (symbol' = symbol /\ df' = df)]_vars

\* C2: a response whose records have fewer than six fields leaves the table
\* that was active before the call in place (no partial table is installed).
C2_ShortRecordsKeepTable ==
    [][(Consistent /\ Loaded(last') /\ ShortRecords(last'.resp)) =>
          (df' = df /\ \A c \in IndicatorColumns : HasColumn(df, c) => HasColumn(df', c))]_vars

\* C3: symbol/table consistency.  Once the active symbol is the symbol the
\* active table was fetched for, it stays so after every fillDataFrame call,
\* whatever step of it fails: the two are replaced together or not at all.
C3_SymbolMatchesTable ==
    [][(pc = "serving" /\ Consistent) =>
          /\ Consistent'
          /\ (symbol' # symbol) => (dfSymbol' # dfSymbol)
          /\ (dfSymbol' # dfSymbol) => (symbol' # symbol)]_vars

\* C4: every FetchFailure is recovered locally: no exception leaves
\* fillDataFrame into the callback, and the active symbol and table (with the
\* symbol it was fetched for) are as before the call.
C4_FailureRecoveredLocally ==
    [][(Consistent /\ Loaded(last') /\ FetchFailure(last'.resp)) =>
          (last'.fillExc = "none" /\ symbol' = symbol /\ df' = df
           /\ dfSymbol' = dfSymbol)]_vars

\* C5: in every state of the running process the session holds a table with
\* every indicator column attached.
C5_TableHasIndicators ==
    pc = "serving" =>
        /\ HasDF(df)
        /\ \A c \in IndicatorColumns : HasColumn(df, c)

\* C6 as claimed: a callback with ticker t fetches exactly once, for t followed
\* by USDT, and on success that pair is the active symbol; with no ticker
\* (None) nothing is fetched and the session is unchanged.
C6_PairIsTickerWithSuffix ==
    [][last'.op = "display" =>
          IF last'.value.isNone
          THEN last'.fetched = <<>> /\ UNCHANGED <<symbol, req_params, df, dfSymbol>>
          ELSE /\ last'.fetched = <<last'.value.s \o USDT>>
               /\ Succeeded(last') => symbol' = last'.value.s \o USDT]_vars

\* C6 as amended: a callback with ticker t fetches exactly once, for the
\* upper-cased t followed by USDT (the symbol of the request parameters), and
\* when fillDataFrame completes without an exception that pair is the active
\* symbol; with no ticker (None) nothing is fetched and the session is
\* unchanged.
C6_PairIsUpperTickerWithSuffix ==
    [][last'.op = "display" =>
          IF last'.value.isNone
          THEN last'.fetched = <<>> /\ UNCHANGED <<symbol, req_params, df, dfSymbol>>
          ELSE /\ last'.fetched = <<Upper(last'.value.s) \o USDT>>
               /\ req_params' = Upper(last'.value.s) \o USDT
               /\ Succeeded(last') => symbol' = Upper(last'.value.s) \o USDT]_vars

\* the lower-case ticker eth has been submitted and loaded as ETHUSDT
C6_Witness ==
    /\ Loaded(last)
    /\ last.value.s = <<"e", "t", "h">>
    /\ Succeeded(last)
    /\ last.fetched = <<<<"E", "T", "H", "U", "S", "D", "T">>>>
    /\ symbol = <<"E", "T", "H", "U", "S", "D", "T">>
    /\ dfSymbol = symbol

----------------------------------------------------------------------------
(* The indicator engine on tables long enough for every window *)

BaseClose == 100
Step == 1
Spacing == 1000000

\* a kline of a long table: the close price rises by Step per row; high and
\* low are not symmetric around it, so that TP differs from the close; the
\* close of row gap (if any) is null.  Open times are spaced by less than a
\* day to stay within 32-bit integers; movingAverages reads neither the Date
\* column nor the index.
LongKline(i, gap) ==
    LET c == BaseClose + Step * (i - 1)
    IN  << Cell("num", i * Spacing), Cell("str", c - 1), Cell("str", c + 3),
           Cell("str", c - 1 - (i % 2)),
           IF i = gap THEN Null ELSE Cell("str", c),
           Cell("str", 500 + i), Cell("num", i * Spacing + Spacing - 1) >>

LongRecords(n, gap) == [i \in 1..n |-> LongKline(i, gap)]

\* the frame lines 53-58 build from a well-formed response
Frame(records) ==
    LET d == [Iloc(DataFrame(records), 0, KeptFields) EXCEPT !.columns = OHLCV]
    IN  [d EXCEPT !.index = [i \in 1..Len(records) |-> FromTimestamp(records[i][1])]]

IndInit ==
    /\ pc = "l59"
    /\ symbol = BTCUSDT
    /\ req_params = BTCUSDT
    /\ dfSymbol = BTCUSDT
    /\ \E n \in 1..MaxRows, gap \in 0..MaxGap : df = Frame(LongRecords(n, gap))
    /\ last = NoRun
    /\ tpc = <<>>
    /\ tloc = <<>>

\* line 59: self.movingAverages()
RunMovingAverages ==
    /\ pc = "l59"
    /\ \E r \in {MovingAverages(df)} :
          /\ df' = r.df
          /\ pc' = IF r.raised THEN "except" ELSE "returned"
    /\ UNCHANGED <<symbol, req_params, dfSymbol, last, tpc, tloc>>

IndNext == RunMovingAverages

IndSpec == IndInit /\ [][IndNext]_vars

----------------------------------------------------------------------------
(* Properties of the indicator engine (under IndSpec) *)

\* the windowed indicator columns with their window lengths
Windowed ==
    {<<"21MA", W21>>, <<"50MA", W50>>, <<"100MA", W100>>, <<"200MA", W200>>,
     <<"STD", BollWindow>>, <<"BOLU", BollWindow>>, <<"BOLD", BollWindow>>}

MovingAverageColumns ==
    {<<"21MA", W21>>, <<"50MA", W50>>, <<"100MA", W100>>, <<"200MA", W200>>}

\* rows are numbered from 1 here: row i of the claims is row i + 1
Computed == pc = "returned"

\* the mean of the n values xs[i-n+1 .. i], recomputed directly
NaiveMean(xs, i, n) == FDivInt(FSum(xs, i - n + 1, i), n)

\* C7: warm-up.  After movingAverages, every windowed indicator (window n) is
\* NaN at each of the first n-1 rows, so a table with fewer than n rows has the
\* column entirely NaN; and movingAverages returns (no exception) with every
\* indicator column attached, one value per row.
C7_WarmUp ==
    pc # "l59" =>
        /\ pc = "returned"
        /\ \A ind \in Windowed :
              /\ HasColumn(df, ind[1])
              /\ Len(Column(df, ind[1])) = NumRows(df)
              /\ \A i \in 1..NumRows(df) :
                    i < ind[2] => IsNaN(Column(df, ind[1])[i])

\* a table shorter than the 200 and 100 windows but not than the 50 window has
\* been computed
C7_Witness ==
    /\ Computed
    /\ NumRows(df) = W100 - 1
    /\ \A i \in 1..NumRows(df) : IsNaN(Column(df, "100MA")[i])
    /\ ~IsNaN(Column(df, "50MA")[NumRows(df)])

\* C8: for every moving-average window n and every row i >= n-1 (0-based)
\* whose n trailing closes are all present, the nMA at row i is the arithmetic
\* mean of the closes of exactly the rows [i-n+1, i]; and for 25 rows with
\* closes 100..124 the 21MA at row 20 is 110.
C8_MovingAverage ==
    Computed =>
        LET close == AsFloatSeries(Column(df, "Close"))
        IN  /\ \A ind \in MovingAverageColumns :
                  \A i \in ind[2]..NumRows(df) :
                      (\A j \in (i - ind[2] + 1)..i : ~IsNaN(close[j])) =>
                          FEq(Column(df, ind[1])[i], NaiveMean(close, i, ind[2]))
            /\ (NumRows(df) = 25 /\ \A j \in 1..25 : close[j] = Rat(99 + j, 1)) =>
                  FEq(Column(df, "21MA")[21], Rat(110, 1))

\* a table with more rows than the longest window has been computed, and its
\* last 200MA is a value
C8_Witness ==
    /\ Computed
    /\ NumRows(df) > W200
    /\ ~IsNaN(Column(df, "200MA")[NumRows(df)])
    /\ ~IsNaN(Column(df, "200MA")[W200])

\* C9: Bollinger relationship.  At every row where BOLU and BOLD are not NaN,
\* BOLU >= mean of TP over the trailing 20 rows >= BOLD and BOLU - BOLD =
\* 4 * STD; and TP is (high + low + close) / 3 at every row.
C9_Bollinger ==
    Computed =>
        LET tp == Column(df, "TP")
            bolu == Column(df, "BOLU")
            bold == Column(df, "BOLD")
            std == Column(df, "STD")
            close == AsFloatSeries(Column(df, "Close"))
            high == AsFloatSeries(Column(df, "High"))
            low == AsFloatSeries(Column(df, "Low"))
        IN  \A i \in 1..NumRows(df) :
                /\ ~IsNaN(close[i]) =>
                      FEq(FScale(TPParts, tp[i]), FAdd(FAdd(high[i], low[i]), close[i]))
                /\ (~IsNaN(bolu[i]) /\ ~IsNaN(bold[i])) =>
                      /\ i >= BollWindow
                      /\ FGeq(bolu[i], NaiveMean(tp, i, BollWindow))
                      /\ FGeq(NaiveMean(tp, i, BollWindow), bold[i])
                      /\ FEq(FSub(bolu[i], bold[i]), FScale(4, std[i]))

\* a row with both bands present and strictly apart has been computed
C9_Witness ==
    /\ Computed
    /\ NumRows(df) >= BollWindow
    /\ ~IsNaN(Column(df, "BOLU")[NumRows(df)])
    /\ ~IsNaN(Column(df, "BOLD")[NumRows(df)])
    /\ ~FEq(Column(df, "BOLU")[NumRows(df)], Column(df, "BOLD")[NumRows(df)])

====
